---- MODULE Spec2Model ----
(***************************************************************************)
(* Model of the solis-sensor polling core:                                 *)
(*   custom_components/solis/ginlong_api.py  (GinlongAPI, GinlongData)     *)
(*   custom_components/solis/service.py      (InverterService,             *)
(*                                            ServiceSubscriber)           *)
(* Time is counted in units of 10 minutes since local midnight.            *)
(* Numbers (JSON numbers, floats) are counted in thousandths.              *)
(***************************************************************************)
EXTENDS Integers, Sequences, FiniteSets, TLC

\* ------------------------------------------------------------------ bounds
\* The clock runs from FirstTime (11:30) for at most MaxElapsed units.
MaxElapsed == 3
\* The record lists of the extraction hold at most MaxRecords records.
MaxRecords == 2
\* The clock runs from FirstTime to FirstTime + MaxAge where sessions age.
MaxAge == 14

FirstTime == 11 * 6 + 3
Serials == {"A", "B"}
Subscribers == {"s1", "s2", "s3"}

\* --------------------------------------------------------- python values
\* Optional values: None, or a 1-tuple holding the value.
None == <<>>
Some(x) == <<x>>

\* A raw JSON value: a number (m thousandths), a string, or null.
Num(m) == [t |-> "num", m |-> m, s |-> ""]
Str(s) == [t |-> "str", m |-> 0, s |-> s]
Null == [t |-> "null", m |-> 0, s |-> ""]

\* A typed python value: str, int or float (m in thousandths).
PyStr(s) == [ty |-> "str", m |-> 0, s |-> s]
PyInt(n) == [ty |-> "int", m |-> n * 1000, s |-> ""]
PyFloat(m) == [ty |-> "float", m |-> m, s |-> ""]

\* The strings python's int() and float() can parse, with their value.
NumericStrings ==
    [x \in {"0", "1", "2", "3"} |->
        CASE x = "0" -> 0 [] x = "1" -> 1000 [] x = "2" -> 2000 [] x = "3" -> 3000]
DecimalStrings ==
    [x \in {"12.5", "0.004"} |-> CASE x = "12.5" -> 12500 [] x = "0.004" -> 4]
\* str() of the numbers the model uses.
NumberText(m) ==
    CASE m = 0 -> "0" [] m = 1000 -> "1" [] m = 2000 -> "2" [] m = 3000 -> "3"
      [] m = 12500 -> "12.5" [] OTHER -> "number"

\* ------------------------------------------------------ ginlong_const names
INVERTER_SERIAL == "serial"
INVERTER_STATE == "state"
INVERTER_ENERGY_TODAY == "energy_today"
INVERTER_ACPOWER == "acpower"
INVERTER_TEMPERATURE == "temperature"
INVERTER_TIMESTAMP_ONLINE == "timestamp_online"
INVERTER_TIMESTAMP_UPDATE == "timestamp_update"
PHASE1_VOLTAGE == "phase1_voltage"
PHASE1_CURRENT == "phase1_current"

VALUE_RECORD == "_from_record"
VALUE_ELEMENT == ""

\* The rows of INVERTER_DATA the model keeps, in the order of the source:
\* one direct-lookup section and two record-scan sections.
FieldSpec(name, key, type, precision) ==
    [name |-> name, key |-> key, type |-> type, precision |-> precision]
INVERTER_DATA ==
    << [subkey |-> "none", kind |-> VALUE_ELEMENT, attributes |->
          << FieldSpec(INVERTER_SERIAL, "sn", "str", None),
             FieldSpec(INVERTER_TIMESTAMP_ONLINE, "receiveTimestamps", "int", None),
             FieldSpec(INVERTER_TIMESTAMP_UPDATE, "updateDate", "int", None),
             FieldSpec(INVERTER_STATE, "state", "int", None) >>],
       [subkey |-> "realTimeDataImp", kind |-> VALUE_RECORD, attributes |->
          << FieldSpec(INVERTER_TEMPERATURE, "1df", "float", Some(1)) >>],
       [subkey |-> "realTimeDataPower", kind |-> VALUE_RECORD, attributes |->
          << FieldSpec(INVERTER_ACPOWER, "1ao", "float", Some(2)),
             FieldSpec(INVERTER_ENERGY_TODAY, "1bd", "float", Some(2)),
             FieldSpec(PHASE1_VOLTAGE, "1af", "float", Some(2)),
             FieldSpec(PHASE1_CURRENT, "1ai", "float", Some(2)) >>] >>
AttributesOf(section) ==
    {section.attributes[j].name : j \in 1..Len(section.attributes)}
Attributes ==
    UNION {AttributesOf(INVERTER_DATA[i]) : i \in 1..Len(INVERTER_DATA)}

\* ------------------------------------------------------------- coercion
\* The outcome of a call that may raise: exc = "" when it returned.
Returned(v) == [exc |-> "", value |-> v]
Raised(e) == [exc |-> e, value |-> None]

\* round(x, precision) on thousandths, ties to even.
RoundTo(m, step) ==
    LET low == (m \div step) * step
        rest == m - low
    IN  IF 2 * rest < step THEN low
        ELSE IF 2 * rest > step THEN low + step
        ELSE IF (low \div step) % 2 = 0 THEN low ELSE low + step
round(m, precision) ==
    IF precision = Some(1) THEN RoundTo(m, 100)
    ELSE IF precision = Some(2) THEN RoundTo(m, 10)
    ELSE m

\* The raw value passed on without conversion.
Coerce_unconverted(type, raw) ==
    Returned(Some(IF raw.t = "str" THEN PyStr(raw.s) ELSE PyFloat(raw.m)))
\* type_(data_raw): str(), int() or float() of a JSON value that is not null.
Coerce(type, raw) ==
    CASE type = "str" ->
           Returned(Some(PyStr(IF raw.t = "str" THEN raw.s ELSE NumberText(raw.m))))
      [] type = "int" ->
           IF raw.t = "num" THEN Returned(Some(PyInt(raw.m \div 1000)))
           ELSE IF raw.s \in DOMAIN NumericStrings
                THEN Returned(Some(PyInt(NumericStrings[raw.s] \div 1000)))
                ELSE Raised("ValueError")
      [] type = "float" ->
           IF raw.t = "num" THEN Returned(Some(PyFloat(raw.m)))
           ELSE IF raw.s \in DOMAIN NumericStrings
                THEN Returned(Some(PyFloat(NumericStrings[raw.s])))
                ELSE IF raw.s \in DOMAIN DecimalStrings
                     THEN Returned(Some(PyFloat(DecimalStrings[raw.s])))
                     ELSE Raised("ValueError")

\* Round to specified precision (floats only).
Rounded(type, precision, r) ==
    IF r.exc = "" /\ type = "float"
    THEN Returned(Some(PyFloat(round(r.value[1].m, precision))))
    ELSE r

\* GinlongAPI._get_value: direct lookup of key in a mapping.
_get_value(data, key, type, precision) ==
    LET data_raw == IF key \in DOMAIN data THEN data[key] ELSE Null
    IN  IF data_raw # Null
        THEN Rounded(type, precision, Coerce(type, data_raw))
        ELSE Returned(None)

\* GinlongAPI._get_value_from_record: scan of the whole record list; every
\* matching record with a value overwrites the result.
RECURSIVE ScanRecords(_, _, _, _, _)
ScanRecords(data, key, type, precision, result) ==
    IF data = <<>> THEN Returned(result)
    ELSE LET record == Head(data)
         IN  IF record.key = key /\ record.value # Null
             THEN LET r == Rounded(type, precision, Coerce(type, record.value))
                  IN  IF r.exc # "" THEN r
                      ELSE ScanRecords(Tail(data), key, type, precision, r.value)
             ELSE ScanRecords(Tail(data), key, type, precision, result)
\* A scan that stops at the first matching record.
_get_value_from_record_first(data, key, type, precision) ==
    LET hits == {i \in 1..Len(data) : data[i].key = key /\ data[i].value # Null}
    IN  IF hits = {} THEN Returned(None)
        ELSE LET first == CHOOSE i \in hits : \A j \in hits : i <= j
             IN  Rounded(type, precision, Coerce(type, data[first].value))
_get_value_from_record(data, key, type, precision) ==
    ScanRecords(data, key, type, precision, None)

\* ------------------------------------------------- ordered dictionaries
\* A python dict as the sequence of its items in insertion order.
Keys(d) == [i \in 1..Len(d) |-> d[i].k]
Has(d, k) == \E i \in 1..Len(d) : d[i].k = k
Get(d, k) == d[CHOOSE i \in 1..Len(d) : d[i].k = k].v
Put(d, k, v) ==
    IF Has(d, k)
    THEN [i \in 1..Len(d) |-> IF d[i].k = k THEN [k |-> k, v |-> v] ELSE d[i]]
    ELSE Append(d, [k |-> k, v |-> v])
Pop(d, k) == SelectSeq(d, LAMBDA item : item.k # k)

\* ------------------------------------------------------------ extraction
\* A detail payload: wapper says whether payload['result']['deviceWapper']
\* exists, top is that mapping's scalar fields, sub its named subsections
\* (each a list of key/value records).
Payload(wapper, top, sub) == [wapper |-> wapper, top |-> top, sub |-> sub]

\* The inner loop of _collect_inverter_data over one section's attributes.
RECURSIVE CollectAttributes(_, _, _, _)
CollectAttributes(kind, jsondata, attributes, data) ==
    IF attributes = <<>> THEN [exc |-> "", data |-> data]
    ELSE LET a == Head(attributes)
             r == IF kind = VALUE_RECORD
                  THEN _get_value_from_record(jsondata, a.key, a.type, a.precision)
                  ELSE _get_value(jsondata, a.key, a.type, a.precision)
         IN  IF r.exc # "" THEN [exc |-> r.exc, data |-> data]
             ELSE CollectAttributes(kind, jsondata, Tail(attributes),
                      IF r.value # None THEN Put(data, a.name, r.value[1]) ELSE data)

\* GinlongAPI._collect_inverter_data: the outer loop over the sections.
RECURSIVE CollectSections(_, _, _)
CollectSections(payload, sections, data) ==
    IF sections = <<>> THEN [exc |-> "", data |-> data]
    ELSE LET section == Head(sections) IN
         IF ~payload.wapper THEN [exc |-> "KeyError", data |-> data]
         ELSE IF section.subkey # "none" /\ section.subkey \notin DOMAIN payload.sub
         THEN [exc |-> "KeyError", data |-> data]
         ELSE LET jsondata == IF section.subkey = "none" THEN payload.top
                              ELSE payload.sub[section.subkey]
                  r == CollectAttributes(section.kind, jsondata,
                                         section.attributes, data)
              IN  IF r.exc # "" THEN r
                  ELSE CollectSections(payload, Tail(sections), r.data)
_collect_inverter_data(payload) == CollectSections(payload, INVERTER_DATA, <<>>)

\* GinlongAPI._purge_if_unused(0.0, a, b): drop both when both are 0.0.
_purge_if_unused(data, a, b) ==
    IF Has(data, a) /\ Get(data, a).m = 0 /\ Has(data, b) /\ Get(data, b).m = 0
    THEN Pop(Pop(data, a), b)
    ELSE data

\* GinlongAPI._post_process: milliseconds to seconds (float(x)/1000), then
\* the unused phases are removed.
_post_process(data) ==
    IF data = <<>> THEN data
    ELSE LET online ==
               IF Has(data, INVERTER_TIMESTAMP_ONLINE)
               THEN Put(data, INVERTER_TIMESTAMP_ONLINE,
                        PyFloat(Get(data, INVERTER_TIMESTAMP_ONLINE).m \div 1000))
               ELSE data
             fixed ==
               IF Has(online, INVERTER_TIMESTAMP_UPDATE)
               THEN Put(online, INVERTER_TIMESTAMP_UPDATE,
                        PyFloat(Get(online, INVERTER_TIMESTAMP_UPDATE).m \div 1000))
               ELSE online
         IN  _purge_if_unused(fixed, PHASE1_CURRENT, PHASE1_VOLTAGE)

\* keys without the move of state.
keys_unordered(data) == Returned(Keys(data))
\* GinlongData.keys: the attribute names with state moved to the front;
\* list.remove raises ValueError when state is absent.
keys(data) ==
    IF ~Has(data, INVERTER_STATE) THEN Raised("ValueError")
    ELSE Returned(<<INVERTER_STATE>> \o
                  SelectSeq(Keys(data), LAMBDA k : k # INVERTER_STATE))

\* ---------------------------------------------------------- GinlongAPI
\* A portal response: the transport times out or fails ("timeout"), answers
\* with another status than 200 ("error"), or answers 200 with a JSON body.
Response(status, content) == [status |-> status, content |-> content]

\* _post_data and _get_data: no request without a session; a timeout or a
\* client error is caught; only HTTP 200 is a success.
_get_data(session, resp) ==
    [SUCCESS |-> session /\ resp.status = "ok", CONTENT |-> resp.content]
_post_data(session, resp) ==
    [SUCCESS |-> session /\ resp.status = "ok", CONTENT |-> resp.content]

\* GinlongAPI.logout
logout_keeps_online(a) == [a EXCEPT !.session = FALSE, !.inverter_list = None]
logout_keeps_directory(a) == [a EXCEPT !.session = FALSE, !.online = FALSE]
logout(a) == [session |-> FALSE, online |-> FALSE, inverter_list |-> None]

RECURSIVE DeviceIds(_, _)
DeviceIds(records, device_ids) ==
    IF records = <<>> THEN device_ids
    ELSE DeviceIds(Tail(records),
                   Put(device_ids, Head(records).sn, Head(records).deviceId))

\* GinlongAPI.fetch_inverter_list: the directory, None on a failed request
\* (the session then goes offline); a body without result.paginationAjax.data
\* raises KeyError, and one whose data is null raises TypeError in the loop
\* over the records (line 274).
fetch_inverter_list(api, resp) ==
    LET result == _get_data(api.session, resp)
    IN  IF result.SUCCESS
        THEN IF ~result.CONTENT.complete
             THEN [exc |-> "KeyError", api |-> api, device_ids |-> None]
             ELSE IF result.CONTENT.null
             THEN [exc |-> "TypeError", api |-> api, device_ids |-> None]
             ELSE [exc |-> "", api |-> api,
                   device_ids |-> Some(DeviceIds(result.CONTENT.data, <<>>))]
        ELSE [exc |-> "", api |-> [api EXCEPT !.online = FALSE], device_ids |-> None]

\* login without the test of isAccept.
login_unchecked(api, post, get) ==
    LET api0 == [api EXCEPT !.session = TRUE, !.inverter_list = None]
        result == _post_data(api0.session, post)
    IN  IF result.SUCCESS /\ result.CONTENT.result
        THEN LET r == fetch_inverter_list([api0 EXCEPT !.online = TRUE], get)
             IN  IF r.exc = "KeyError"
                 THEN [exc |-> "", api |-> [api0 EXCEPT !.online = FALSE],
                       list_requested |-> TRUE]
                 ELSE IF r.exc # ""
                 THEN [exc |-> r.exc, api |-> [api0 EXCEPT !.online = TRUE],
                       list_requested |-> TRUE]
                 ELSE [exc |-> "",
                       api |-> [r.api EXCEPT !.inverter_list = r.device_ids],
                       list_requested |-> TRUE]
        ELSE [exc |-> "", api |-> [api0 EXCEPT !.online = FALSE],
              list_requested |-> FALSE]

\* GinlongAPI.login: returns the api state and is_online.  Only KeyError is
\* caught (line 237): any other error of fetch_inverter_list leaves login
\* after line 233 has set the session online and before the directory is
\* assigned.
login(api, post, get) ==
    LET api0 == [api EXCEPT !.session = TRUE, !.inverter_list = None]
        result == _post_data(api0.session, post)
    IN  IF result.SUCCESS
        THEN IF ~result.CONTENT.result
             THEN [exc |-> "", api |-> [api0 EXCEPT !.online = FALSE],
                   list_requested |-> FALSE]
             ELSE IF result.CONTENT.isAccept = Some(1)
                  THEN LET api1 == [api0 EXCEPT !.online = TRUE]
                           r == fetch_inverter_list(api1, get)
                       IN  IF r.exc = "KeyError"
                           THEN [exc |-> "", api |-> [api1 EXCEPT !.online = FALSE],
                                 list_requested |-> TRUE]
                           ELSE IF r.exc # ""
                           THEN [exc |-> r.exc, api |-> api1, list_requested |-> TRUE]
                           ELSE [exc |-> "",
                                 api |-> [r.api EXCEPT !.inverter_list = r.device_ids],
                                 list_requested |-> TRUE]
                  ELSE [exc |-> "", api |-> api0, list_requested |-> FALSE]
        ELSE [exc |-> "", api |-> [api0 EXCEPT !.online = FALSE],
              list_requested |-> FALSE]

\* GinlongAPI._get_inverter_details: the payload, None on a failed request.
_get_inverter_details(api, resp) ==
    LET result == _get_data(api.session, resp)
    IN  IF result.SUCCESS THEN Some(result.CONTENT) ELSE None

\* GinlongAPI.fetch_inverter_data: the measurement set, None when offline,
\* when the serial is not in the directory or when the request failed; an
\* error of the extraction escapes.
fetch_inverter_data(api, inverter_serial, resp) ==
    IF api.online /\ api.inverter_list # None
                  /\ Has(api.inverter_list[1], inverter_serial)
    THEN LET payload == _get_inverter_details(api, resp)
         IN  IF payload # None
             THEN LET c == _collect_inverter_data(payload[1])
                  IN  IF c.exc # "" THEN [exc |-> c.exc, data |-> None, requested |-> TRUE]
                      ELSE [exc |-> "", data |-> Some(_post_process(c.data)),
                            requested |-> TRUE]
             ELSE [exc |-> "", data |-> None, requested |-> TRUE]
    ELSE [exc |-> "", data |-> None, requested |-> FALSE]

\* ------------------------------------------------------------ service.py
SCHEDULE_OK == 2
SCHEDULE_NOK == 1
\* HRS_BETWEEN_LOGIN = timedelta(hours=2), in units of 10 minutes.
HRS_BETWEEN_LOGIN == 12
\* timedelta(minutes=10) of the energy-today grace period, in the same units.
GRACE_PERIOD == 1
MAX_RETRIES == 3
\* seconds
RETRY_DELAY == 10

\* datetime.now().hour of a clock value.
hour(t) == (t \div 6) % 24

\* data_updated without the test of the timestamp.
data_updated_always(measured, last_updated, accepted) ==
    [called |-> TRUE,
     measured |-> IF accepted THEN Some(last_updated) ELSE measured]
\* ServiceSubscriber.data_updated: do_update is called unless the timestamp
\* equals the last accepted one; accepted says what do_update returns.
data_updated(measured, last_updated, accepted) ==
    IF measured # Some(last_updated)
    THEN [called |-> TRUE,
          measured |-> IF accepted THEN Some(last_updated) ELSE measured]
    ELSE [called |-> FALSE, measured |-> measured]

\* DeliveredValue without the standby case.
DeliveredValue_no_standby(data, attribute, subs, meas, t) ==
    Returned(Get(data, attribute))
\* DeliveredValue without the test of the time of day.
DeliveredValue_any_time(data, attribute, subs, meas, t) ==
    IF attribute = INVERTER_ENERGY_TODAY /\ Get(data, INVERTER_STATE).m = 2000
    THEN Returned(PyInt(0))
    ELSE Returned(Get(data, attribute))

\* The value update_devices delivers for one attribute (lines 132-147): the
\* raw value, or 0 for energy today in the morning.  A missing state
\* subscription raises KeyError.
DeliveredValue(data, attribute, subs, meas, t) ==
    LET value == Get(data, attribute)
        is_am == hour(t) < 12
        state == Get(data, INVERTER_STATE)
    IN  IF attribute # INVERTER_ENERGY_TODAY THEN Returned(value)
        ELSE IF state.m = 2000 /\ is_am THEN Returned(PyInt(0))
        ELSE IF state.m = 1000 /\ is_am
        THEN IF INVERTER_STATE \notin DOMAIN subs THEN Raised("KeyError")
             ELSE LET last_updated_state == meas[subs[INVERTER_STATE]]
                  IN  IF last_updated_state # None
                         /\ last_updated_state[1] + GRACE_PERIOD < t
                      THEN Returned(PyInt(0))
                      ELSE Returned(value)
        ELSE Returned(value)

\* The loop of update_devices over data.keys(); subs is the table of the
\* set's serial.  Returns the subscribers' timestamps and the pushes made.
RECURSIVE DispatchLoop(_, _, _, _, _, _, _, _)
DispatchLoop(data, serial, attributes, subs, meas, t, accept, pushes) ==
    IF attributes = <<>> THEN [exc |-> "", measured |-> meas, pushes |-> pushes]
    ELSE LET attribute == Head(attributes) IN
         IF attribute \notin DOMAIN subs
         THEN DispatchLoop(data, serial, Tail(attributes), subs, meas, t, accept, pushes)
         ELSE LET v == DeliveredValue(data, attribute, subs, meas, t)
                  sub == subs[attribute]
                  u == data_updated(meas[sub], t, attribute \in accept)
                  push == [serial |-> serial, attribute |-> attribute,
                           subscriber |-> sub,
                           value |-> v.value, raw |-> Get(data, attribute),
                           ts |-> t, is_am |-> hour(t) < 12,
                           state |-> Get(data, INVERTER_STATE).m \div 1000,
                           state_measured |->
                               IF INVERTER_STATE \in DOMAIN subs
                               THEN meas[subs[INVERTER_STATE]] ELSE None,
                           called |-> u.called,
                           accepted |-> u.measured # meas[sub],
                           do_update |-> attribute \in accept,
                           before |-> meas[sub], after |-> u.measured]
              IN  IF v.exc # ""
                  THEN [exc |-> v.exc, measured |-> meas, pushes |-> pushes]
                  ELSE DispatchLoop(data, serial, Tail(attributes), subs,
                                    [meas EXCEPT ![sub] = u.measured], t, accept,
                                    Append(pushes, push))

\* update_devices that pushes nothing.
update_devices_silent(data, subscriptions, meas, t, accept) ==
    [exc |-> "", measured |-> meas, pushes |-> <<>>]

\* InverterService.update_devices: t is self.last_updated, which async_update
\* set to datetime.now() right before the call.
update_devices(data, subscriptions, meas, t, accept) ==
    IF ~Has(data, INVERTER_SERIAL)
    THEN [exc |-> "AttributeError", measured |-> meas, pushes |-> <<>>]
    ELSE LET serial == Get(data, INVERTER_SERIAL).s IN
         IF serial \notin DOMAIN subscriptions
         THEN [exc |-> "", measured |-> meas, pushes |-> <<>>]
         ELSE LET k == keys(data) IN
              IF k.exc # ""
              THEN [exc |-> k.exc, measured |-> meas, pushes |-> <<>>]
              ELSE DispatchLoop(data, serial, k.value, subscriptions[serial],
                                meas, t, accept, <<>>)

\* _login without the test of is_online.
_login_always(a, login_time, t, post, get) ==
    LET r == login(a, post, get)
    IN  [exc |-> r.exc, api |-> r.api,
         logintime |-> IF r.exc = "" /\ r.api.online THEN Some(t) ELSE login_time,
         ret |-> r.exc = "" /\ r.api.online, posted |-> TRUE,
         list_requested |-> r.list_requested]

\* InverterService._login: the portal is asked only while offline.  An error
\* raised by login passes through (exc), and nothing is returned or recorded.
_login(a, login_time, t, post, get) ==
    IF ~a.online
    THEN LET r == login(a, post, get)
         IN  [exc |-> r.exc, api |-> r.api,
              logintime |-> IF r.exc = "" /\ r.api.online THEN Some(t)
                            ELSE login_time,
              ret |-> r.exc = "" /\ r.api.online, posted |-> TRUE,
              list_requested |-> r.list_requested]
    ELSE [exc |-> "", api |-> a, logintime |-> login_time, ret |-> a.online,
          posted |-> FALSE, list_requested |-> FALSE]

\* InverterService._logout
_logout(a) == [api |-> logout(a), logintime |-> None]

\* The loop of _do_discover over the inverters (lines 110-113); details is
\* the portal's answer to the detail request of every inverter.
RECURSIVE DiscoverLoop(_, _, _, _)
DiscoverLoop(a, serials, details, caps) ==
    IF serials = <<>> THEN Returned(caps)
    ELSE LET inverter_serial == Head(serials)
             f == fetch_inverter_data(a, inverter_serial, details[inverter_serial])
         IN  IF f.exc # "" THEN Raised(f.exc)
             ELSE IF f.data = None
             THEN DiscoverLoop(a, Tail(serials), details, caps)
             ELSE LET k == keys(f.data[1])
                  IN  IF k.exc # "" THEN Raised(k.exc)
                      ELSE DiscoverLoop(a, Tail(serials), details,
                                        Put(caps, inverter_serial, k.value))

\* InverterService._do_discover: whenever _login returns true the login time
\* is set to now (line 106).  r is what _login returns and c what the loop
\* over the inverters returns, each computed once.
_do_discover(a, login_time, t, post, get, details) ==
    CHOOSE out \in UNION {
        IF ~r.ret
        THEN {[exc |-> r.exc, api |-> r.api, logintime |-> r.logintime,
               capabilities |-> <<>>, posted |-> r.posted]}
        ELSE IF r.api.inverter_list = None
        THEN {[exc |-> "", api |-> r.api, logintime |-> Some(t),
               capabilities |-> <<>>, posted |-> r.posted]}
        ELSE {[exc |-> c.exc, api |-> r.api, logintime |-> Some(t),
               capabilities |-> IF c.exc = "" THEN c.value ELSE <<>>,
               posted |-> r.posted] :
                  c \in {DiscoverLoop(r.api, Keys(r.api.inverter_list[1]),
                                      details, <<>>)}} :
            r \in {_login(a, login_time, t, post, get)}} : TRUE

\* The loop of discover with one attempt less.
discover_continues_short(caps, n) == caps = <<>> /\ n < MAX_RETRIES
\* The condition of the while loop of discover (line 91).
discover_continues(caps, n) == caps = <<>> /\ n <= MAX_RETRIES

\* ---------------------------------------------------------------- inputs
DeviceId == [x \in Serials |-> IF x = "A" THEN "idA" ELSE "idB"]
DeviceRecord(x) == [sn |-> x, deviceId |-> DeviceId[x]]
Directories ==
    {<<>>, <<DeviceRecord("A")>>, <<DeviceRecord("A"), DeviceRecord("B")>>}

LoginContent(result, isAccept) == [result |-> result, isAccept |-> isAccept]
LoginResponses ==
    {Response("timeout", LoginContent(FALSE, None)),
     Response("error", LoginContent(TRUE, Some(1))),
     Response("ok", LoginContent(FALSE, None)),
     Response("ok", LoginContent(TRUE, None)),
     Response("ok", LoginContent(TRUE, Some(0))),
     Response("ok", LoginContent(TRUE, Some(1)))}

ListContent(complete, data) ==
    [complete |-> complete, null |-> FALSE, data |-> data]
\* The body of a list answer whose result.paginationAjax.data is null.
NullListContent == [complete |-> TRUE, null |-> TRUE, data |-> <<>>]
ListResponses ==
    {Response("timeout", ListContent(FALSE, <<>>)),
     Response("error", ListContent(TRUE, <<DeviceRecord("A")>>)),
     Response("ok", ListContent(FALSE, <<>>))}
    \cup {Response("ok", ListContent(TRUE, d)) : d \in Directories}

\* Without an answer to the login request there is no device list request.
ListResponsesAfter(post) ==
    IF post.status = "ok" THEN ListResponses
    ELSE {Response("timeout", ListContent(FALSE, <<>>))}

KeyValue(key, value) == [key |-> key, value |-> value]
\* A well-formed detail payload of inverter sn in the given state.
Detail(sn, state, energy) ==
    Payload(TRUE,
            ("sn" :> Str(sn)) @@ ("updateDate" :> Num(5000000))
                @@ ("state" :> Num(state * 1000)),
            ("realTimeDataImp" :> <<KeyValue("1df", Str("12.5"))>>)
                @@ ("realTimeDataPower" :>
                      <<KeyValue("1ao", Str("2")), KeyValue("1bd", Str(energy)),
                        KeyValue("1af", Str("0")), KeyValue("1ai", Str("0"))>>))
\* Malformed payloads: no deviceWapper, a missing section, a value that is
\* no number, no state field, no sn field, no energy record.
Malformed(sn) ==
    LET good == Detail(sn, 1, "12.5")
    IN  {[good EXCEPT !.wapper = FALSE],
         [good EXCEPT !.sub = ("realTimeDataImp" :> <<>>)],
         Detail(sn, 1, "abc"),
         [good EXCEPT !.top = ("sn" :> Str(sn))],
         [good EXCEPT !.top = ("state" :> Num(1000))],
         [good EXCEPT !.sub = ("realTimeDataImp" :> <<>>)
                               @@ ("realTimeDataPower" :> <<>>)]}
DetailResponses(sn) ==
    {Response("timeout", Detail(sn, 1, "0")), Response("error", Detail(sn, 1, "0"))}
    \cup {Response("ok", Detail(sn, st, "12.5")) : st \in {1, 2, 3}}
    \cup {Response("ok", Detail(sn, 2, "3"))}
    \cup {Response("ok", p) : p \in Malformed(sn)}
    \cup {Response("ok", Detail(x, 3, "12.5")) : x \in Serials \ {sn}}

\* The subscribe calls the host makes (subscriber, serial, attribute), and
\* what do_update may answer: the set of attributes whose push it accepts.
SubscribeCalls ==
    {<<"s1", "A", INVERTER_STATE>>, <<"s2", "A", INVERTER_ENERGY_TODAY>>,
     <<"s2", "B", INVERTER_STATE>>}
Acceptances == SUBSET {INVERTER_STATE, INVERTER_ENERGY_TODAY}
\* do_update is called only with the data of an answered request.
AcceptancesAfter(resp) == IF resp.status = "ok" THEN Acceptances ELSE {{}}

\* ------------------------------------------------------------------ state
VARIABLES
    api,            \* GinlongAPI: _session set, _online, _inverter_list
    logintime,      \* InverterService._logintime
    last_updated,   \* InverterService._last_updated
    subscriptions,  \* InverterService._subscriptions
    measured,       \* ServiceSubscriber._measured of every subscriber
    now,            \* datetime.now()
    pc,             \* where async_update stands: "idle", "loop" or "done"
    inverters,      \* the inverters async_update has still to fetch
    update,         \* the local variable update of async_update
    ticks,          \* calls of schedule_update in the current cycle
    outcome,        \* how the cycle ended: "success", "failure" or "error"
    log,            \* what the current cycle did, in order
    pushes,         \* the data_updated calls of its last update_devices
    timer,          \* the tick schedule_update requested, until the cycle is over
    payload,        \* the detail answer of the portal that is being extracted
    extracted,      \* what fetch_inverter_data made of it
    retries,        \* the local variable retries of discover
    capabilities,   \* the local variable capabilities of discover
    slept,          \* the seconds discover has slept
    authenticated   \* when a login last took the session online

vars == <<api, logintime, last_updated, subscriptions, measured, now, pc,
          inverters, update, ticks, outcome, log, pushes, timer, payload,
          extracted, retries, capabilities, slept, authenticated>>
\* What only the extraction and what only discover changes.
fetch_vars == <<payload, extracted>>
discover_vars == <<retries, capabilities, slept>>

\* An entry of the log: what happened and for which inverter; for a push,
\* the serial of the measurement set and the attribute pushed.
Event(e, serial) == [e |-> e, serial |-> serial, set |-> "", attribute |-> ""]
Fetched(serial, data) ==
    [e |-> "fetch_data", serial |-> serial, attribute |-> "",
     set |-> IF Has(data, INVERTER_SERIAL) THEN Get(data, INVERTER_SERIAL).s ELSE ""]
Pushed(serial, ps) ==
    [i \in 1..Len(ps) |->
        [e |-> "push", serial |-> serial, set |-> ps[i].serial,
         attribute |-> ps[i].attribute]]

Init ==
    /\ api = [session |-> FALSE, online |-> FALSE, inverter_list |-> None]
    /\ logintime = None
    /\ last_updated = None
    /\ subscriptions = <<>>
    /\ measured = [x \in Subscribers |-> None]
    /\ now = FirstTime
    /\ pc = "idle"
    /\ inverters = <<>>
    /\ update = SCHEDULE_NOK
    /\ ticks = 0
    /\ outcome = "none"
    /\ log = <<>>
    /\ pushes = <<>>
    /\ timer = None
    /\ payload = None
    /\ extracted = None
    /\ retries = 0
    /\ capabilities = <<>>
    /\ slept = 0
    /\ authenticated = None

\* Time passes between the cycles (a clock unit is 10 minutes, every portal
\* request times out after 10 seconds).
Tick ==
    /\ pc = "idle"
    /\ now < FirstTime + MaxElapsed
    /\ now' = now + 1
    /\ UNCHANGED <<api, logintime, last_updated, subscriptions, measured, pc,
                   inverters, update, ticks, outcome, log, pushes>>
    /\ UNCHANGED <<timer, fetch_vars, discover_vars, authenticated>>

\* subscribe that starts a new table for the serial on every call.
subscribe_replacing(subs, subscriber, serial, attribute) ==
    (serial :> (attribute :> subscriber)) @@ subs
\* InverterService.subscribe
subscribe(subs, subscriber, serial, attribute) ==
    LET old == IF serial \in DOMAIN subs THEN subs[serial] ELSE <<>>
    IN  (serial :> ((attribute :> subscriber) @@ old)) @@ subs
Subscribe(subscriber, serial, attribute) ==
    /\ pc = "idle"
    /\ subscriptions' = subscribe(subscriptions, subscriber, serial, attribute)
    /\ UNCHANGED <<api, logintime, last_updated, measured, now, pc, inverters,
                   update, ticks, outcome, log, pushes>>
    /\ UNCHANGED <<timer, fetch_vars, discover_vars, authenticated>>

\* async_update, lines 153-158: login if needed and read the directory.
AsyncUpdateLogin(post, get) ==
    /\ pc = "idle"
    /\ \E r \in {_login(api, logintime, now, post, get)} :
       LET events == (IF r.posted THEN <<Event("post_login", "")>> ELSE <<>>)
                     \o (IF r.list_requested THEN <<Event("get_list", "")>> ELSE <<>>)
                     \o <<Event(IF r.exc # "" THEN r.exc
                                ELSE IF r.ret THEN "login_true" ELSE "login_false",
                                "")>>
       IN  /\ api' = r.api
           /\ logintime' = r.logintime
           /\ update' = SCHEDULE_NOK
           /\ ticks' = 0
           /\ pushes' = <<>>
           /\ IF r.exc # ""
              THEN /\ pc' = "done"
                   /\ outcome' = "error"
                   /\ inverters' = <<>>
                   /\ log' = events
              ELSE IF r.ret /\ r.api.inverter_list = None
              THEN /\ pc' = "done"
                   /\ outcome' = "failure"
                   /\ inverters' = <<>>
                   /\ log' = events \o <<Event("return", "")>>
              ELSE /\ pc' = "loop"
                   /\ outcome' = "running"
                   /\ inverters' = IF r.ret THEN Keys(r.api.inverter_list[1]) ELSE <<>>
                   /\ log' = events
           /\ authenticated' = IF r.posted /\ r.api.online THEN Some(now)
                               ELSE authenticated
    /\ UNCHANGED <<last_updated, subscriptions, measured, now>>
    /\ UNCHANGED <<timer, fetch_vars, discover_vars>>

\* An unhandled error ends the cycle where it is raised.
Escapes(exc, events) ==
    /\ pc' = "done"
    /\ outcome' = "error"
    /\ log' = log \o events \o <<Event(exc, Head(inverters))>>
    /\ UNCHANGED <<api, logintime, inverters>>

\* async_update, lines 159-169: one turn of the loop over the inverters.
FetchAndDispatch(resp, accept) ==
    \E f \in {fetch_inverter_data(api, Head(inverters), resp)} :
    LET inverter_serial == Head(inverters)
        requested == IF f.requested
                     THEN <<Event("get_detail", inverter_serial)>> ELSE <<>>
    IN  IF f.exc # ""
        THEN /\ Escapes(f.exc, requested)
             /\ pushes' = <<>>
             /\ UNCHANGED <<last_updated, measured, update>>
        ELSE IF f.data # None
        THEN \E d \in {update_devices(f.data[1], subscriptions, measured, now, accept)} :
             /\ update' = SCHEDULE_OK
             /\ last_updated' = Some(now)
             /\ measured' = d.measured
             /\ pushes' = d.pushes
             /\ IF d.exc # ""
                THEN Escapes(d.exc, requested
                                    \o <<Fetched(inverter_serial, f.data[1])>>
                                    \o Pushed(inverter_serial, d.pushes))
                ELSE /\ log' = log \o requested
                                   \o <<Fetched(inverter_serial, f.data[1])>>
                                   \o Pushed(inverter_serial, d.pushes)
                                   \o <<Event("dispatched", inverter_serial)>>
                     /\ inverters' = Tail(inverters)
                     /\ UNCHANGED <<api, logintime, pc, outcome>>
        ELSE \E o \in {_logout(api)} :
             /\ update' = SCHEDULE_NOK
             /\ api' = o.api
             /\ logintime' = o.logintime
             /\ inverters' = Tail(inverters)
             /\ log' = log \o requested
                           \o <<Event("fetch_none", inverter_serial),
                                Event("update_nok", inverter_serial),
                                Event("logout", inverter_serial)>>
             /\ pushes' = <<>>
             /\ UNCHANGED <<pc, outcome, last_updated, measured>>

AsyncUpdateFetch ==
    /\ pc = "loop"
    /\ inverters # <<>>
    /\ \E resp \in IF api.online THEN DetailResponses(Head(inverters))
                    ELSE {Response("timeout", Detail(Head(inverters), 1, "0"))} :
          \E accept \in AcceptancesAfter(resp) : FetchAndDispatch(resp, accept)
    /\ UNCHANGED <<subscriptions, now, ticks>>
    /\ UNCHANGED <<timer, fetch_vars, discover_vars, authenticated>>

\* schedule_update called inside the loop over the inverters.
AsyncUpdateSchedule_early ==
    /\ pc = "loop"
    /\ timer = None
    /\ ticks' = ticks + 1
    /\ timer' = Some(now + 1)
    /\ log' = Append(log, Event("schedule_update", ""))
    /\ UNCHANGED <<api, logintime, last_updated, subscriptions, measured, now, pc,
                   inverters, update, outcome, pushes>>
    /\ UNCHANGED <<fetch_vars, discover_vars, authenticated>>

\* InverterService.schedule_update: the tick is due in minute minutes (1 or
\* 2), that is within the next clock unit.
schedule_update(t, minute) == Some(t + 1)

\* async_update, lines 171-178: request the next tick, log out of a session
\* older than HRS_BETWEEN_LOGIN, return.
AsyncUpdateSchedule ==
    /\ pc = "loop"
    /\ inverters = <<>>
    /\ ticks' = ticks + 1
    /\ timer' = schedule_update(now, update)
    /\ LET stale == logintime # None /\ logintime[1] + HRS_BETWEEN_LOGIN < now
           o == IF stale THEN _logout(api) ELSE [api |-> api, logintime |-> logintime]
       IN  /\ api' = o.api
           /\ logintime' = o.logintime
           /\ log' = log \o <<Event("schedule_update", "")>>
                         \o (IF stale THEN <<Event("logout", "")>> ELSE <<>>)
                         \o <<Event("return", "")>>
    /\ pc' = "done"
    /\ outcome' = IF update = SCHEDULE_OK THEN "success" ELSE "failure"
    /\ UNCHANGED <<last_updated, subscriptions, measured, now, inverters, update,
                   pushes>>
    /\ UNCHANGED <<fetch_vars, discover_vars, authenticated>>

\* The cycle is over: its local variables and its record are dropped.
AsyncUpdateReturn ==
    /\ pc = "done"
    /\ pc' = "idle"
    /\ inverters' = <<>>
    /\ update' = SCHEDULE_NOK
    /\ ticks' = 0
    /\ outcome' = "none"
    /\ log' = <<>>
    /\ pushes' = <<>>
    /\ timer' = None
    /\ UNCHANGED <<api, logintime, last_updated, subscriptions, measured, now>>
    /\ UNCHANGED <<fetch_vars, discover_vars, authenticated>>

Next ==
    \/ Tick
    \/ \E call \in SubscribeCalls : Subscribe(call[1], call[2], call[3])
    \/ \E post \in IF api.online THEN {Response("timeout", LoginContent(FALSE, None))}
                    ELSE LoginResponses :
           \E get \in ListResponsesAfter(post) : AsyncUpdateLogin(post, get)
    \/ AsyncUpdateFetch
    \/ AsyncUpdateSchedule
    \/ AsyncUpdateReturn

Spec == Init /\ [][Next]_vars

\* ------------------------------------------------- one fetch and dispatch
\* The records of a payload section: the key of the temperature or another
\* key, with a number, a text that is no number, or null.
RecordKinds ==
    {KeyValue(k, v) : k \in {"1df", "zz"},
                      v \in {Str("1"), Str("2"), Str("abc"), Null}}
RecordLists == UNION {[1..n -> RecordKinds] : n \in 0..MaxRecords}

\* The scalar fields of deviceWapper; Null stands for a field that is null
\* or missing (data.get(key) is None).
Tops ==
    [sn : {Str("A"), Str("B"), Null},
     receiveTimestamps : {Num(7000000), Null},
     updateDate : {Num(5000000), Str("abc"), Null},
     state : {Num(1000), Str("2"), Null}]
Powers ==
    {<<KeyValue("1ao", Str("2")), KeyValue("1bd", Str(e)),
       KeyValue("1af", Str(v)), KeyValue("1ai", Str("0"))>> :
         e \in {"12.5", "abc"}, v \in {"0", "2"}}
DefaultTop ==
    [sn |-> Str("A"), receiveTimestamps |-> Null, updateDate |-> Num(5000000),
     state |-> Num(1000)]
DefaultPower ==
    <<KeyValue("1ao", Str("2")), KeyValue("1bd", Str("12.5")),
      KeyValue("1af", Str("0")), KeyValue("1ai", Str("0"))>>
Sections(imp, power) ==
    ("realTimeDataImp" :> imp) @@ ("realTimeDataPower" :> power)
FetchPayloads ==
    {Payload(TRUE, DefaultTop, Sections(imp, DefaultPower)) : imp \in RecordLists}
    \cup {Payload(TRUE, top, Sections(<<KeyValue("1df", Str("12.5"))>>, power)) :
             top \in Tops, power \in Powers}

\* Subscription tables: none; state, energy and a timestamp of A; energy of
\* A without its state; only B; A and B.
FetchTables ==
    {<<>>,
     subscribe(subscribe(subscribe(<<>>, "s1", "A", INVERTER_STATE),
                         "s2", "A", INVERTER_ENERGY_TODAY),
               "s3", "A", INVERTER_TIMESTAMP_UPDATE),
     subscribe(<<>>, "s2", "A", INVERTER_ENERGY_TODAY),
     subscribe(subscribe(<<>>, "s1", "B", INVERTER_STATE),
               "s2", "B", INVERTER_ENERGY_TODAY),
     subscribe(subscribe(subscribe(<<>>, "s1", "A", INVERTER_STATE),
                         "s3", "A", INVERTER_TEMPERATURE),
               "s2", "B", INVERTER_STATE)}

\* async_update stands in its loop, online, before the fetch of inverter A,
\* whose detail request the portal answers with payload.
InitFetch ==
    /\ api = [session |-> TRUE, online |-> TRUE,
              inverter_list |->
                  Some(DeviceIds(<<DeviceRecord("A"), DeviceRecord("B")>>, <<>>))]
    /\ logintime = Some(FirstTime)
    /\ last_updated = None
    /\ subscriptions \in FetchTables
    /\ measured \in {[x \in Subscribers |-> m] :
                         m \in {None, Some(FirstTime - 1), Some(FirstTime)}}
    /\ now = FirstTime
    /\ pc = "loop"
    /\ inverters = <<"A">>
    /\ update = SCHEDULE_NOK
    /\ ticks = 0
    /\ outcome = "running"
    /\ log = <<Event("login_true", "")>>
    /\ pushes = <<>>
    /\ timer = None
    /\ payload \in {Some(p) : p \in FetchPayloads}
    /\ extracted = None
    /\ retries = 0
    /\ capabilities = <<>>
    /\ slept = 0
    /\ authenticated = Some(FirstTime)

\* One turn of the loop of async_update; extracted keeps what
\* fetch_inverter_data returned (or raised).
FetchOne ==
    /\ pc = "loop"
    /\ inverters # <<>>
    /\ extracted = None
    /\ \E accept \in Acceptances :
           FetchAndDispatch(Response("ok", payload[1]), accept)
    /\ extracted' =
           Some(fetch_inverter_data(api, Head(inverters), Response("ok", payload[1])))
    /\ UNCHANGED <<subscriptions, now, ticks, timer, payload, discover_vars, authenticated>>

NextFetch == FetchOne

SpecFetch == InitFetch /\ [][NextFetch]_vars

\* ------------------------------------------------------------ the registry
\* Any subscriber subscribes to any pair, between cycles that log in, fetch
\* every inverter and dispatch.
RegistryAttributes == {INVERTER_STATE, INVERTER_ENERGY_TODAY}
RegistryLogin ==
    AsyncUpdateLogin(Response("ok", LoginContent(TRUE, Some(1))),
                     Response("ok", ListContent(TRUE, <<DeviceRecord("A"),
                                                        DeviceRecord("B")>>)))
RegistryFetch ==
    /\ pc = "loop"
    /\ inverters # <<>>
    /\ FetchAndDispatch(Response("ok", Detail(Head(inverters), 3, "12.5")),
                        RegistryAttributes)
    /\ UNCHANGED <<subscriptions, now, ticks, timer, fetch_vars, discover_vars, authenticated>>
NextRegistry ==
    \/ \E subscriber \in Subscribers, serial \in Serials,
           attribute \in RegistryAttributes :
               Subscribe(subscriber, serial, attribute)
    \/ RegistryLogin
    \/ RegistryFetch
    \/ AsyncUpdateSchedule
    \/ AsyncUpdateReturn

SpecRegistry == Init /\ [][NextRegistry]_vars

\* --------------------------------------------------------------- discover
\* Where the log holds the event e.
Logged(e) == {i \in 1..Len(log) : log[i].e = e}
\* discover is called: lines 89-90.
DiscoverStart ==
    /\ pc = "idle"
    /\ pc' = "discover"
    /\ retries' = 0
    /\ capabilities' = <<>>
    /\ slept' = 0
    /\ outcome' = "running"
    /\ log' = <<>>
    /\ UNCHANGED <<api, logintime, last_updated, subscriptions, measured, now,
                   inverters, update, ticks, pushes, timer, fetch_vars,
                   authenticated>>

\* One turn of the while loop of discover (lines 91-97): an attempt and, when
\* it yields nothing, the sleep, during which the clock may reach its next
\* unit ("clock").  An error raised by the attempt ends discover.
DiscoverAttempt(post, get, details, passed) ==
    /\ pc = "discover"
    /\ discover_continues(capabilities, retries)
    /\ \E r \in {_do_discover(api, logintime, now, post, get, details)} :
         /\ api' = r.api
         /\ logintime' = r.logintime
         /\ authenticated' = IF r.posted /\ r.api.online THEN Some(now)
                             ELSE authenticated
         /\ IF r.exc # ""
            THEN /\ pc' = "idle"
                 /\ outcome' = "error"
                 /\ log' = log \o <<Event("discover_attempt", ""), Event(r.exc, "")>>
                 /\ capabilities' = <<>>
                 /\ UNCHANGED <<retries, slept, now>>
            ELSE IF r.capabilities = <<>>
            THEN /\ retries' = retries + 1
                 /\ slept' = slept + RETRY_DELAY
                 /\ now' = now + passed
                 /\ log' = log \o <<Event("discover_attempt", "")>>
                               \o (IF passed = 1 THEN <<Event("clock", "")>>
                                   ELSE <<>>)
                               \o <<Event("discover_sleep", "")>>
                 /\ capabilities' = <<>>
                 /\ UNCHANGED <<pc, outcome>>
            ELSE /\ capabilities' = r.capabilities
                 /\ log' = log \o <<Event("discover_attempt", "")>>
                 /\ UNCHANGED <<retries, slept, now, pc, outcome>>
    /\ UNCHANGED <<last_updated, subscriptions, measured, inverters, update,
                   ticks, pushes, timer, fetch_vars>>

\* discover returns its capabilities: lines 98-100.
DiscoverReturn ==
    /\ pc = "discover"
    /\ ~discover_continues(capabilities, retries)
    /\ pc' = "idle"
    /\ outcome' = IF capabilities = <<>> THEN "failure" ELSE "success"
    /\ log' = Append(log, Event("discover_return", ""))
    /\ UNCHANGED <<api, logintime, last_updated, subscriptions, measured, now,
                   inverters, update, ticks, pushes, timer, fetch_vars,
                   discover_vars, authenticated>>

\* What the portal answers during an attempt of discover.
DiscoverLogins ==
    {Response("timeout", LoginContent(FALSE, None)),
     Response("ok", LoginContent(TRUE, Some(1)))}
DiscoverLists ==
    {Response("ok", ListContent(TRUE, <<DeviceRecord("A")>>)),
     Response("ok", ListContent(TRUE, <<DeviceRecord("A"), DeviceRecord("B")>>))}
DiscoverDetails ==
    [Serials -> {"ok", "timeout", "stateless"}]
DiscoverDetail(sn, kind) ==
    IF kind = "ok" THEN Response("ok", Detail(sn, 3, "12.5"))
    ELSE IF kind = "timeout" THEN Response("timeout", Detail(sn, 1, "0"))
    ELSE IF kind = "nameless"
    THEN Response("ok", [Detail(sn, 1, "12.5") EXCEPT !.top = ("state" :> Num(1000))])
    ELSE Response("ok", [Detail(sn, 1, "12.5") EXCEPT !.top = ("sn" :> Str(sn))])
\* The sleeps of one discover (40 seconds at most) see the clock reach its
\* next unit at most once.
Passing ==
    IF Logged("clock") = {} /\ now < FirstTime + MaxAge THEN {0, 1} ELSE {0}

DiscoverTurn ==
    \E post \in IF api.online THEN {Response("timeout", LoginContent(FALSE, None))}
                 ELSE DiscoverLogins :
    \E get \in IF api.online \/ post.status # "ok"
                THEN {Response("timeout", ListContent(FALSE, <<>>))}
                ELSE DiscoverLists :
    \E kinds \in DiscoverDetails, passed \in Passing :
        DiscoverAttempt(post, get,
                        [sn \in Serials |-> DiscoverDetail(sn, kinds[sn])], passed)

NextDiscover ==
    \/ DiscoverStart
    \/ DiscoverTurn
    \/ DiscoverReturn

\* A discover that is running gets its turns: every request of an attempt is
\* answered or times out and the sleep ends.  A turn is enabled exactly while
\* the loop condition holds, so this is WF_vars(DiscoverTurn).
DiscoverTurnFair ==
    \/ []<>(~(pc = "discover" /\ discover_continues(capabilities, retries)))
    \/ []<><<DiscoverTurn>>_vars
SpecDiscover ==
    Init /\ [][NextDiscover]_vars /\ DiscoverTurnFair /\ WF_vars(DiscoverReturn)

\* ------------------------------------------------------------ the service
\* The host calls discover and starts the first cycle; every later cycle
\* starts when the tick of schedule_update is due.
ServiceLogin ==
    \E post \in IF api.online THEN {Response("timeout", LoginContent(FALSE, None))}
                 ELSE DiscoverLogins :
    \E get \in IF api.online \/ post.status # "ok"
                THEN {Response("timeout", ListContent(FALSE, <<>>))}
                ELSE {Response("ok", ListContent(TRUE, <<DeviceRecord("A")>>))} :
        AsyncUpdateLogin(post, get)

\* discover serves the initial discovery of the capabilities: the host calls
\* it when it sets the service up, before the first cycle.
SetupDiscover ==
    /\ now = FirstTime
    /\ outcome = "none"
    /\ DiscoverStart

ServiceFetch ==
    /\ pc = "loop"
    /\ inverters # <<>>
    /\ \E kind \in {"ok", "timeout", "nameless"} :
           FetchAndDispatch(DiscoverDetail(Head(inverters), kind), {})
    /\ UNCHANGED <<subscriptions, now, ticks, timer, fetch_vars, discover_vars,
                   authenticated>>

\* Time passes until the tick is due.
TickAge ==
    /\ pc = "done"
    /\ timer # None
    /\ now < timer[1]
    /\ now < FirstTime + MaxAge
    /\ now' = now + 1
    /\ UNCHANGED <<api, logintime, last_updated, subscriptions, measured, pc,
                   inverters, update, ticks, outcome, log, pushes, timer,
                   fetch_vars, discover_vars, authenticated>>

\* async_track_point_in_utc_time: the tick is due, the next cycle may start.
TimerFires ==
    /\ timer # None
    /\ now >= timer[1]
    /\ AsyncUpdateReturn

NextService ==
    \/ SetupDiscover
    \/ DiscoverTurn
    \/ DiscoverReturn
    \/ ServiceLogin
    \/ ServiceFetch
    \/ AsyncUpdateSchedule
    \/ TickAge
    \/ TimerFires

SpecService == Init /\ [][NextService]_vars

\* ------------------------------------------------------------ the session
\* The operations of the service in any order, each run to its end before
\* the next starts: cycles, discover, and _login and _logout on their own.
SessionLists == ListResponses \cup {Response("ok", NullListContent)}
SessionListsAfter(post) ==
    IF api.online \/ post.status # "ok"
    THEN {Response("timeout", ListContent(FALSE, <<>>))}
    ELSE SessionLists
SessionLogins ==
    IF api.online THEN {Response("timeout", LoginContent(FALSE, None))}
    ELSE LoginResponses

\* InverterService._login called on its own.
LoginCall(post, get) ==
    /\ pc = "idle"
    /\ \E r \in {_login(api, logintime, now, post, get)} :
         /\ api' = r.api
         /\ logintime' = r.logintime
         /\ authenticated' = IF r.posted /\ r.api.online THEN Some(now)
                             ELSE authenticated
         /\ outcome' = IF r.exc # "" THEN "error" ELSE "none"
         /\ log' = <<Event(IF r.exc # "" THEN r.exc
                           ELSE IF r.ret THEN "login_true" ELSE "login_false", "")>>
    /\ UNCHANGED <<last_updated, subscriptions, measured, now, pc, inverters,
                   update, ticks, pushes, timer, fetch_vars, discover_vars>>

\* InverterService._logout called on its own.
LogoutCall ==
    /\ pc = "idle"
    /\ \E o \in {_logout(api)} :
         /\ api' = o.api
         /\ logintime' = o.logintime
    /\ outcome' = "none"
    /\ log' = <<Event("logout", "")>>
    /\ UNCHANGED <<last_updated, subscriptions, measured, now, pc, inverters,
                   update, ticks, pushes, timer, fetch_vars, discover_vars,
                   authenticated>>

SessionCycleLogin ==
    \E post \in SessionLogins : \E get \in SessionListsAfter(post) :
        AsyncUpdateLogin(post, get)
SessionLoginCall ==
    \E post \in SessionLogins : \E get \in SessionListsAfter(post) :
        LoginCall(post, get)
SessionDiscoverTurn ==
    \E post \in SessionLogins : \E get \in SessionListsAfter(post) :
    \E kinds \in [Serials -> {"ok", "timeout"}] :
        DiscoverAttempt(post, get,
                        [sn \in Serials |-> DiscoverDetail(sn, kinds[sn])], 0)

NextSession ==
    \/ Tick
    \/ SessionCycleLogin
    \/ ServiceFetch
    \/ AsyncUpdateSchedule
    \/ AsyncUpdateReturn
    \/ DiscoverStart
    \/ SessionDiscoverTurn
    \/ DiscoverReturn
    \/ SessionLoginCall
    \/ LogoutCall

SpecSession == Init /\ [][NextSession]_vars

\* ------------------------------------------------------------- properties
EnergyPushes == {i \in 1..Len(pushes) : pushes[i].attribute = INVERTER_ENERGY_TODAY}
LoggedIn(l, e) == {i \in 1..Len(l) : l[i].e = e}

\* C1: in the morning with state 1 (off), energy today is delivered as 0
\* unless the state subscriber last accepted more than 10 minutes ago, in
\* which case the raw value is delivered.
C1_OffZeroWithinGrace ==
    \A i \in EnergyPushes :
        LET p == pushes[i]
        IN  (p.is_am /\ p.state = 1) =>
                IF p.state_measured # None
                   /\ p.state_measured[1] + GRACE_PERIOD < p.ts
                THEN p.value = p.raw
                ELSE p.value.m = 0

\* C2: in the morning with state 2 (standby), energy today is delivered as
\* 0 whatever the raw reading.
C2_StandbyForcesZero ==
    \A i \in EnergyPushes :
        (pushes[i].is_am /\ pushes[i].state = 2) => pushes[i].value.m = 0
C2_Witness ==
    \E i \in EnergyPushes :
        /\ pushes[i].is_am /\ pushes[i].state = 2
        /\ pushes[i].raw.m = 12500 /\ pushes[i].value.m = 0 /\ pushes[i].called

\* C3: every other push delivers the raw value of the measurement set:
\* another attribute, or energy today at noon or later, or in a state that
\* is neither 1 nor 2.
C3_RawOtherwise ==
    \A i \in 1..Len(pushes) :
        LET p == pushes[i]
        IN  (p.attribute # INVERTER_ENERGY_TODAY \/ ~p.is_am \/ p.state \notin {1, 2})
                => p.value = p.raw
C3_Witness ==
    \E i \in EnergyPushes :
        /\ ~pushes[i].is_am /\ pushes[i].state = 2
        /\ pushes[i].raw.m = 12500 /\ pushes[i].value = pushes[i].raw

\* C4: a cycle in which a fetch returned no data ends as a failure, offline
\* and without directory.
C4_FailedFetchFailsCycle ==
    (pc = "done" /\ Logged("fetch_none") # {}) =>
        /\ outcome = "failure" /\ update = SCHEDULE_NOK
        /\ ~api.online /\ api.inverter_list = None
C4_Witness ==
    /\ pc = "done"
    /\ \E i \in Logged("fetch_data"), j \in Logged("fetch_none") : i < j

\* C5: when a fetch succeeds and a later one fails, the first set was
\* dispatched (its state subscriber pushed) before anything marked the cycle
\* failed or logged out, and the failure leaves the subscribers as they are.
C5_Order ==
    \A i \in Logged("fetch_data"), j \in Logged("fetch_none") :
        i < j =>
            \E k \in (i + 1)..(j - 1) :
                /\ log[k] = Event("dispatched", log[i].serial)
                /\ \A m \in (i + 1)..(k - 1) : log[m].e = "push"
                /\ \A m \in 1..k : log[m].e \notin {"update_nok", "logout"}
                /\ (/\ log[i].set \in DOMAIN subscriptions
                    /\ INVERTER_STATE \in DOMAIN subscriptions[log[i].set])
                   => \E m \in (i + 1)..(k - 1) :
                          /\ log[m].set = log[i].set
                          /\ log[m].attribute = INVERTER_STATE
C5_NotUndone ==
    (update = SCHEDULE_OK /\ update' = SCHEDULE_NOK) =>
        /\ measured' = measured
        /\ last_updated' = last_updated
C5_PartialFailureKeepsDeliveries == []C5_Order /\ [][C5_NotUndone]_vars
C5_Witness ==
    /\ pc = "done" /\ outcome = "failure"
    /\ \E i \in Logged("fetch_data"), m \in Logged("push"), j \in Logged("fetch_none") :
           i < m /\ m < j /\ log[i].serial = "A" /\ log[j].serial = "B"
    /\ measured["s1"] = Some(now)

\* C6: no cycle ends with an unhandled error.
C6_NoErrorEscapes == outcome # "error"

\* C7: every cycle requests exactly one future tick.
C7_ExactlyOneTick == pc = "done" => ticks = 1

\* C8: a login from offline ends online, with the directory and the login
\* time, exactly when the answer is HTTP 200 with isAccept = 1 and the
\* device list is answered completely; otherwise offline without directory.
Accepted(post) ==
    post.status = "ok" /\ post.content.result /\ post.content.isAccept = Some(1)
Discovered(get) == get.status = "ok" /\ get.content.complete
C8_Login ==
    (pc = "idle" /\ pc' # "idle" /\ ~api.online) =>
        \A post \in LoginResponses, get \in ListResponses :
            AsyncUpdateLogin(post, get) =>
                /\ api'.online <=> (Accepted(post) /\ Discovered(get))
                /\ api'.online =>
                       /\ api'.inverter_list # None
                       /\ Keys(api'.inverter_list[1]) =
                              [i \in 1..Len(get.content.data) |-> get.content.data[i].sn]
                       /\ logintime' = Some(now)
                /\ ~api'.online => api'.inverter_list = None
C9_Relogin ==
    (pc = "idle" /\ pc' # "idle" /\ api.online) =>
        /\ api' = api
        /\ logintime' = logintime
        /\ LoggedIn(log', "post_login") = {} /\ LoggedIn(log', "get_list") = {}
        /\ log'[1].e = "login_true"
C9_LoginIdempotent == [][C9_Relogin]_vars
C9_Witness == pc = "loop" /\ log[1].e = "login_true" /\ logintime # Some(now)

\* C10: a logout leaves the session offline, without directory and login
\* time, whatever it was; while offline a fetch asks nothing and returns no
\* data; only a login brings the session online again.
C10_Logout ==
    /\ Cardinality(LoggedIn(log', "logout")) > Cardinality(Logged("logout"))
           => /\ api' = [session |-> FALSE, online |-> FALSE, inverter_list |-> None]
              /\ logintime' = None
    /\ (pc = "loop" /\ inverters # <<>> /\ ~api.online)
           => log' = log \o <<Event("fetch_none", Head(inverters)),
                              Event("update_nok", Head(inverters)),
                              Event("logout", Head(inverters))>>
    /\ (~api.online /\ api'.online)
           => pc = "idle" /\ log'[1].e = "post_login"
C10_LogoutUnconditional == [][C10_Logout]_vars
C10_Witness ==
    /\ pc = "done"
    /\ \E i \in Logged("get_detail"), j \in Logged("logout"), k \in Logged("logout") :
           i < j /\ j < k

\* C13: a push calls do_update exactly when its timestamp differs from the
\* subscriber's last accepted one; the last accepted timestamp changes only
\* when do_update accepts, and then it is the timestamp of the push.
C13_DuplicateSuppression ==
    \A i \in 1..Len(pushes) :
        LET p == pushes[i]
        IN  /\ p.called <=> (p.before # Some(p.ts))
            /\ p.after # p.before => (p.called /\ p.do_update)
            /\ (p.called /\ p.do_update) => p.after = Some(p.ts)
            /\ ~(p.called /\ p.do_update) => p.after = p.before
C13_Witness ==
    /\ Len(pushes) >= 2
    /\ pushes[1].before = Some(pushes[1].ts) /\ ~pushes[1].called
    /\ pushes[1].do_update /\ pushes[1].after = pushes[1].before
    /\ measured[pushes[1].subscriber] = Some(now)

\* The measurement set of the fetch, when it returned one.
HasSet == extracted # None /\ extracted[1].exc = "" /\ extracted[1].data # None
Set == extracted[1].data[1]
PushedAttributes == {pushes[i].attribute : i \in 1..Len(pushes)}

\* C15: a dispatch pushes, once each, to exactly the subscribers registered
\* for the serial of the set and an attribute the set contains; nothing is
\* pushed when the serial has no subscriber.
C15_DispatchTargeting ==
    (HasSet /\ Has(Set, INVERTER_SERIAL)) =>
        LET serial == Get(Set, INVERTER_SERIAL).s
            targets == IF serial \in DOMAIN subscriptions
                       THEN {a \in DOMAIN subscriptions[serial] : Has(Set, a)}
                       ELSE {}
        IN  /\ PushedAttributes = targets
            /\ \A i \in 1..Len(pushes) :
                   /\ pushes[i].serial = serial
                   /\ pushes[i].subscriber = subscriptions[serial][pushes[i].attribute]
                   /\ \A j \in 1..Len(pushes) :
                          pushes[j].attribute = pushes[i].attribute => j = i

\* C16: a set that contains state enumerates state first, so the state
\* subscriber is pushed before every other one, and the energy-today rule
\* reads the timestamp the state push left.
C16_StateFirst ==
    (HasSet /\ Has(Set, INVERTER_STATE)) =>
        /\ keys(Set).exc = "" /\ Head(keys(Set).value) = INVERTER_STATE
        /\ \A i \in 1..Len(pushes) :
               /\ pushes[i].attribute = INVERTER_STATE => i = 1
               /\ (pushes[i].attribute = INVERTER_ENERGY_TODAY
                   /\ pushes[1].attribute = INVERTER_STATE)
                      => pushes[i].state_measured = pushes[1].after
C16_Witness ==
    /\ HasSet /\ Len(pushes) = 3
    /\ Keys(Set)[1] # INVERTER_STATE
    /\ pushes[1].attribute = INVERTER_STATE
    /\ pushes[2].attribute = INVERTER_TIMESTAMP_UPDATE
    /\ pushes[3].attribute = INVERTER_ENERGY_TODAY
    /\ pushes[1].before # Some(now) /\ pushes[1].after = Some(now)
    /\ pushes[3].state_measured = Some(now)

\* The row of INVERTER_DATA that declares an attribute.
Rows ==
    UNION {{INVERTER_DATA[i].attributes[j] : j \in 1..Len(INVERTER_DATA[i].attributes)} :
               i \in 1..Len(INVERTER_DATA)}
Declared(name) == (CHOOSE row \in Rows : row.name = name).type

\* C17: every attribute of a fetched set has the type its row declares,
\* the timestamps included.
C17_TypeConformance ==
    HasSet => \A i \in 1..Len(Set) : Set[i].v.ty = Declared(Set[i].k)
\* C17 as amended: every attribute of a fetched set has the type its row
\* declares, except the two timestamps, which are floats (seconds).
C17_TypesExceptTimestamps ==
    HasSet =>
        \A i \in 1..Len(Set) :
            Set[i].v.ty =
                IF Set[i].k \in {INVERTER_TIMESTAMP_ONLINE, INVERTER_TIMESTAMP_UPDATE}
                THEN "float" ELSE Declared(Set[i].k)
C17_Witness ==
    /\ HasSet
    /\ payload[1].top.state = Str("2")
    /\ Has(Set, INVERTER_STATE) /\ Get(Set, INVERTER_STATE) = PyInt(2)
    /\ Has(Set, INVERTER_TIMESTAMP_ONLINE)
    /\ Get(Set, INVERTER_TIMESTAMP_ONLINE) = PyFloat(7000)
    /\ Has(Set, INVERTER_TIMESTAMP_UPDATE)
    /\ Has(Set, INVERTER_TEMPERATURE) /\ Has(Set, INVERTER_SERIAL)

\* C18: a value that cannot be converted does not fail the fetch: it still
\* returns a measurement set.
C18_CoercionFailureLocal ==
    extracted # None => (extracted[1].exc = "" /\ extracted[1].data # None)

\* The record list of the temperature's section, in the payloads that differ
\* from the default one in this list only.
ScanOnly ==
    /\ extracted # None
    /\ payload[1].top = DefaultTop
    /\ payload[1].sub["realTimeDataPower"] = DefaultPower
Scanned == payload[1].sub["realTimeDataImp"]
NumberOf(raw) ==
    IF raw.s \in DOMAIN NumericStrings THEN NumericStrings[raw.s]
    ELSE DecimalStrings[raw.s]
Last(hits) == CHOOSE i \in hits : \A j \in hits : j <= i

\* C20: the last record with the raw key gives the value of the attribute;
\* without such a record the attribute is omitted.
C20_LastMatchWins ==
    (ScanOnly /\ HasSet) =>
        LET hits == {i \in 1..Len(Scanned) : Scanned[i].key = "1df"}
        IN  IF hits = {} THEN ~Has(Set, INVERTER_TEMPERATURE)
            ELSE /\ Has(Set, INVERTER_TEMPERATURE)
                 /\ Scanned[Last(hits)].value # Null
                 /\ Get(Set, INVERTER_TEMPERATURE)
                        = PyFloat(NumberOf(Scanned[Last(hits)].value))
\* C20 as amended: the last record with the raw key and a value that is not
\* null gives the value of the attribute; without such a record the
\* attribute is omitted; a value of such a record that is no number fails
\* the extraction.
C20_LastValuedMatchWins ==
    ScanOnly =>
        LET hits == {i \in 1..Len(Scanned) :
                        Scanned[i].key = "1df" /\ Scanned[i].value # Null}
            numbers == DOMAIN NumericStrings \cup DOMAIN DecimalStrings
        IN  IF \E i \in hits : Scanned[i].value.s \notin numbers
            THEN extracted[1].exc = "ValueError"
            ELSE /\ HasSet
                 /\ IF hits = {} THEN ~Has(Set, INVERTER_TEMPERATURE)
                    ELSE /\ Has(Set, INVERTER_TEMPERATURE)
                         /\ Get(Set, INVERTER_TEMPERATURE)
                                = PyFloat(NumberOf(Scanned[Last(hits)].value))
C20_Witness ==
    /\ ScanOnly /\ HasSet
    /\ Scanned = <<KeyValue("1df", Str("1")), KeyValue("1df", Str("2"))>>
    /\ Get(Set, INVERTER_TEMPERATURE) = PyFloat(2000)

Registered(subs, serial, attribute) ==
    serial \in DOMAIN subs /\ attribute \in DOMAIN subs[serial]

\* C14: a subscribe call registers its handle for its pair and leaves every
\* other pair as it is; no step removes a registration, and only a subscribe
\* call changes the registry.
C14_Step ==
    /\ \A serial \in Serials, attribute \in RegistryAttributes :
           Registered(subscriptions, serial, attribute)
               => Registered(subscriptions', serial, attribute)
    /\ (pc # "idle" \/ pc' # "idle") => subscriptions' = subscriptions
    /\ \A subscriber \in Subscribers, serial \in Serials,
          attribute \in RegistryAttributes :
           Subscribe(subscriber, serial, attribute) =>
               /\ Registered(subscriptions', serial, attribute)
               /\ subscriptions'[serial][attribute] = subscriber
               /\ \A x \in Serials, a \in RegistryAttributes :
                      <<x, a>> # <<serial, attribute>> =>
                          /\ Registered(subscriptions', x, a)
                                 <=> Registered(subscriptions, x, a)
                          /\ Registered(subscriptions, x, a)
                                 => subscriptions'[x][a] = subscriptions[x][a]
C14_Registry == [][C14_Step]_vars
C14_Witness ==
    /\ DOMAIN subscriptions = {"A", "B"}
    /\ DOMAIN subscriptions["A"] = {INVERTER_STATE}
    /\ DOMAIN subscriptions["B"] = {INVERTER_ENERGY_TODAY}
    /\ subscriptions["A"][INVERTER_STATE] = "s2"
    /\ subscriptions["B"][INVERTER_ENERGY_TODAY] = "s3"
    /\ measured["s1"] # None

Count(e) == Cardinality(Logged(e))
DiscoverAttempts == Count("discover_attempt")
C12_Attempts ==
    /\ DiscoverAttempts <= 1 + MAX_RETRIES
    /\ \A i \in 2..Len(log) :
           log[i].e = "discover_attempt" => log[i - 1].e = "discover_sleep"
    /\ DiscoverAttempts > 0 => slept = RETRY_DELAY * Count("discover_sleep")
    /\ Count("discover_return") = 1 =>
           /\ capabilities = <<>> =>
                  /\ DiscoverAttempts = 1 + MAX_RETRIES
                  /\ Count("discover_sleep") = DiscoverAttempts
                  /\ outcome = "failure"
           /\ capabilities # <<>> =>
                  /\ Count("discover_sleep") = DiscoverAttempts - 1
                  /\ log[Len(log) - 1].e = "discover_attempt"
                  /\ outcome = "success"
C12_NoFurtherAttempt ==
    (pc = "discover" /\ capabilities # <<>>) =>
        /\ pc' = "idle"
        /\ capabilities' = capabilities
        /\ log' = Append(log, Event("discover_return", ""))
\* C12: discover makes at most 1 + MAX_RETRIES attempts with a sleep of
\* RETRY_DELAY before every attempt but the first, returns right after the
\* first attempt that yields capabilities, returns nothing only after
\* 1 + MAX_RETRIES attempts that all yielded nothing, and always ends.
C12_BoundedRetries ==
    /\ []C12_Attempts
    /\ [][C12_NoFurtherAttempt]_vars
    /\ (pc = "discover") ~> (pc = "idle")
C12_Witness ==
    /\ Count("discover_return") = 1
    /\ capabilities = <<>>
    /\ DiscoverAttempts = 1 + MAX_RETRIES
    /\ slept = (1 + MAX_RETRIES) * RETRY_DELAY
    /\ api.online

CycleReturns == pc # "done" /\ pc' = "done" /\ outcome' \in {"success", "failure"}
CycleStarts == pc = "idle" /\ pc' \in {"loop", "done"}
C11_Step ==
    /\ (/\ CycleReturns
        /\ authenticated' # None
        /\ authenticated'[1] + HRS_BETWEEN_LOGIN < now') => ~api'.online
    /\ (CycleStarts /\ api.online) =>
           /\ authenticated # None
           /\ now <= authenticated[1] + HRS_BETWEEN_LOGIN + 1
\* C11: a cycle that returns more than HRS_BETWEEN_LOGIN after the last
\* successful login leaves the session offline, and no cycle starts online
\* with a login older than HRS_BETWEEN_LOGIN plus one scheduling interval.
C11_SessionAge == [][C11_Step]_vars

C23_Step ==
    logintime' # logintime =>
        \/ ~api.online /\ api'.online /\ logintime' = Some(now)
        \/ logintime' = None /\ ~api'.online
\* C23: the login time changes only when a login takes the session from
\* offline to online (it is set to that moment) or when a logout clears it,
\* so that a recorded login time is the time of the last real login.
C23_LoginTimeFrame ==
    /\ [][C23_Step]_vars
    /\ [](logintime # None => logintime = authenticated)

\* C22: in a cycle, after a fetch that yielded nothing the session is offline,
\* no detail request is made, no data is fetched and nothing is dispatched;
\* the cycle returns success exactly when its directory is not empty and the
\* fetch of every inverter of the directory yielded data.
C22_EveryFetchSucceeded ==
    /\ Logged("fetch_data") # {}
    /\ Logged("fetch_none") = {}
    /\ \A k \in 1..Len(inverters) :
           \E i \in Logged("fetch_data") : log[i].serial = inverters[k]
C22_FailureSticks ==
    /\ \A i \in Logged("fetch_none") : \A j \in (i + 1)..Len(log) :
           log[j].e \notin {"get_detail", "fetch_data", "push", "dispatched"}
    /\ (pc = "loop" /\ Logged("fetch_none") # {}) => ~api.online
    /\ pc = "done" => (outcome = "success" <=> C22_EveryFetchSucceeded)

\* C21: whenever no operation of the service is running, the session is
\* online exactly when the directory is present and exactly when a login
\* time is recorded.
C21_SessionConsistent ==
    pc = "idle" =>
        /\ api.online <=> api.inverter_list # None
        /\ api.online <=> logintime # None

====
